---------------------------- MODULE Spec2Model ----------------------------
(***************************************************************************)
(* ReceptenApp backend (src/backend/app.py): a Flask service over two      *)
(* PostgreSQL tables, recipes and timers.  Every handler opens its own     *)
(* connection, runs its statements in that connection's transaction,       *)
(* commits, closes and answers.  A worker is one request-handling thread;  *)
(* the committed tables are shared, everything else is local to a worker.  *)
(***************************************************************************)
EXTENDS Integers, Sequences, FiniteSets, TLC

VARIABLES
    recipes,          \* committed rows of table recipes: id -> row
    timers,           \* committed rows of table timers:  id -> row
    recipes_id_seq,   \* next value of the SERIAL sequence of recipes.id
    timers_id_seq,    \* next value of the SERIAL sequence of timers.id
    now,              \* CURRENT_TIMESTAMP, a logical clock
    open,             \* connections the server holds open
    leaked,           \* open connections no handler refers to any more
    pc,               \* per worker: where its handler stands
    req,              \* per worker: the request being (or last) handled
    fetched,          \* per worker: what cur.fetchone() gave
    txn,              \* per worker: the uncommitted write of its transaction
    resp              \* per worker: the response of its last request

vars == <<recipes, timers, recipes_id_seq, timers_id_seq, now, open, leaked,
          pc, req, fetched, txn, resp>>

(***************************************************************************)
(* Bounds of the model.                                                    *)
(***************************************************************************)
MaxConn == 2        \* connection slots of the server
MaxRecipeId == 1    \* add_recipe is not issued once the sequence passed this
MaxTimerId == 1     \* add_timer is not issued once the sequence passed this
DataMaxRecipeId == 2  \* the same two caps, for the one-worker service
DataMaxTimerId == 2
NRace == 3          \* concurrent toggle requests of the race scenario

(***************************************************************************)
(* JSON / SQL values.  A value is tagged, so that NULL, integers and text  *)
(* can sit in the same column and a JSON array can be told from an object. *)
(***************************************************************************)
Null == [null |-> TRUE]
IntV(n) == [int |-> n]
StrV(s) == [str |-> s]
JsonArray(s) == [array |-> s]
None == [none |-> TRUE]
NoTxn == [kind |-> "none"]
NoReq == [op |-> "none"]
NoResp == [status |-> 0]

\* data[key]: raises KeyError when the key is absent
HasKey(data, key) == key \in DOMAIN data
\* data.get(key, default)
Get(data, key, default) == IF key \in DOMAIN data THEN data[key] ELSE default


(***************************************************************************)
(* Request payloads.  A JSON object is a function from the keys present to *)
(* their values; an absent key is not in its domain.                       *)
(***************************************************************************)
RecipeBodies ==
    { [title |-> StrV("Pasta"), cooking_time |-> IntV(20), servings |-> IntV(2)],
      [ingredients |-> StrV("x")] }

TimerBodies ==
    { [recipe_id |-> IntV(r), step_number |-> IntV(1),
       duration_minutes |-> IntV(5)] : r \in 1..(MaxRecipeId + 1) }
    \cup { [recipe_id |-> IntV(1), step_number |-> IntV(1)] }

\* the requests that reach a database handler; the ids of the paths run one
\* past the ids the sequences can give, so that some id is never stored
Requests(RB, TB, maxRecipeId, maxTimerId) ==
    { [op |-> o] : o \in {"db_test", "get_recipes"} }
    \cup { [op |-> "add_recipe", data |-> d] : d \in RB }
    \cup { [op |-> "get_recipe", id |-> i] : i \in 1..(maxRecipeId + 1) }
    \cup { [op |-> "add_timer", data |-> d] : d \in TB }
    \cup { [op |-> "toggle_timer", id |-> i] : i \in 1..(maxTimerId + 1) }

(***************************************************************************)
(* Schema (init_db): what an INSERT stores and when the store rejects it.  *)
(***************************************************************************)
\* recipes: title VARCHAR(255) NOT NULL; the other columns are nullable and
\* their DEFAULT applies only to a column the INSERT does not name (the
\* handler names all five, so only created_at takes its default).
RecipesRejects(title) == title = Null

\* timers: step_number INTEGER NOT NULL
TimersNotNullRejects(step_number) == step_number = Null

\* timers: recipe_id INTEGER REFERENCES recipes(id): a NULL recipe_id is not
\* checked; any other value must be the id of a committed recipe.
ForeignKeyRejects(recipe_id) ==
    /\ recipe_id # Null
    /\ recipe_id.int \notin DOMAIN recipes

\* timers: active BOOLEAN DEFAULT FALSE (the INSERT does not name it)
ActiveDefault == FALSE

(***************************************************************************)
(* The values a handler hands to the INSERT.                               *)
(***************************************************************************)
RequiredRecipeKeys == {"title"}
RequiredTimerKeys == {"recipe_id", "step_number", "duration_minutes"}

RecipeRow(data, created_at) ==
    [ title        |-> data["title"],
      ingredients  |-> Get(data, "ingredients", StrV("")),
      instructions |-> Get(data, "instructions", StrV("")),
      cooking_time |-> Get(data, "cooking_time", IntV(0)),
      servings     |-> Get(data, "servings", IntV(1)),
      created_at   |-> created_at ]

TimerRow(data, created_at) ==
    [ recipe_id        |-> data["recipe_id"],
      step_number      |-> data["step_number"],
      step_description |-> Get(data, "step_description", StrV("")),
      duration_minutes |-> data["duration_minutes"],
      active           |-> ActiveDefault,
      created_at       |-> created_at ]

(***************************************************************************)
(* Queries.                                                                *)
(***************************************************************************)
Perms(S) ==
    { s \in [1..Cardinality(S) -> S] :
          \A i, j \in 1..Cardinality(S) : i # j => s[i] # s[j] }

\* SELECT * FROM recipes ORDER BY created_at DESC: every order the store may
\* give (rows with equal created_at come in any order)
SelectRecipes ==
    { s \in Perms(DOMAIN recipes) :
          \A i \in 1..(Len(s) - 1) :
              recipes[s[i]].created_at >= recipes[s[i + 1]].created_at }

\* WHERE recipe_id = %s
TimersOf(recipe_id) ==
    { t \in DOMAIN timers : timers[t].recipe_id = IntV(recipe_id) }

\* the query without its ORDER BY: the rows in any order
Unordered(s) == TRUE

\* ORDER BY step_number
OrderedByStep(s) ==
    \A i \in 1..(Len(s) - 1) :
        timers[s[i]].step_number.int <= timers[s[i + 1]].step_number.int

\* SELECT * FROM timers WHERE recipe_id = %s ORDER BY step_number
SelectTimers(recipe_id) ==
    { s \in Perms(TimersOf(recipe_id)) : OrderedByStep(s) }

\* an UPDATE that takes no row lock (a read, then a write of what was read)
RowNeverLocked(t) == FALSE

\* the row lock an UPDATE takes and holds until its transaction ends
RowLocked(t) ==
    \E w \in DOMAIN txn : txn[w].kind = "update" /\ t \in DOMAIN txn[w].set

\* conn.commit(): the transaction's write becomes part of the table
Committed(table, write) ==
    CASE write.kind \in {"recipe", "timer"} ->
             (write.id :> write.row) @@ table
      [] write.kind = "update" ->
             [t \in DOMAIN table |->
                 IF t \in DOMAIN write.set
                 THEN [table[t] EXCEPT !.active = write.set[t]]
                 ELSE table[t]]
      [] OTHER -> table

\* a connection in autocommit mode: the write is in the table although the
\* handler failed
AbortedKeepsWrite(table, write) == Committed(table, write)

\* the handler's except branch is reached without conn.commit(): the
\* transaction's write is lost with its connection
Aborted(table, write) == table

\* the UPDATE without its WHERE clause
ToggleMatchesAll(timer_id) == DOMAIN timers

\* WHERE id = %s
ToggleMatches(timer_id) == { t \in DOMAIN timers : t = timer_id }

\* SET active = NOT active
SetActive(active) == ~active

\* the flag as read before the UPDATE
ReturningOld(old, new) == old

\* RETURNING active
Returning(old, new) == new

(***************************************************************************)
(* Response bodies.                                                        *)
(***************************************************************************)
Response(status, body) == [status |-> status, body |-> body]

ErrorBody(e) == [error |-> e]

RecipeJson(id, row) ==
    [ id |-> id, title |-> row.title, ingredients |-> row.ingredients,
      instructions |-> row.instructions, cooking_time |-> row.cooking_time,
      servings |-> row.servings, created_at |-> [iso |-> row.created_at] ]

TimerJson(t) ==
    [ id |-> t, step_number |-> timers[t].step_number,
      step_description |-> timers[t].step_description,
      duration_minutes |-> timers[t].duration_minutes,
      active |-> timers[t].active ]

\* get_recipe: recipe_data with its "timers" list
RecipeData(id, row, ts) ==
    [ id |-> id, title |-> row.title, ingredients |-> row.ingredients,
      instructions |-> row.instructions, cooking_time |-> row.cooking_time,
      servings |-> row.servings, created_at |-> [iso |-> row.created_at],
      timers |-> JsonArray([i \in 1..Len(ts) |-> TimerJson(ts[i])]) ]

\* toggle_timer without the test of result
ToggleResponseUnchecked(result) ==
    Response(200, [active |-> result # None])

\* toggle_timer: if result: ... else: ...
ToggleResponse(result) ==
    IF result # None
    THEN Response(200, [active |-> result.active])
    ELSE Response(404, ErrorBody("Timer niet gevonden"))

(***************************************************************************)
(* How a handler ends.                                                     *)
(***************************************************************************)
\* return jsonify(...): the handler's locals and the request are dropped
Return(w, response) ==
    /\ pc' = [pc EXCEPT ![w] = "idle"]
    /\ req' = [req EXCEPT ![w] = NoReq]
    /\ resp' = [resp EXCEPT ![w] = response]
    /\ fetched' = [fetched EXCEPT ![w] = None]
    /\ txn' = [txn EXCEPT ![w] = NoTxn]

\* cur.close(); conn.close()
Close ==
    /\ open' = open - 1
    /\ leaked' = leaked

\* the handler returns without conn.close(): the connection stays open at
\* the server, its transaction is never committed
Leak ==
    /\ open' = open
    /\ leaked' = leaked + 1

\* except Exception as e: return jsonify({"error": str(e)}), 500
Except(w, e) ==
    /\ Return(w, Response(500, ErrorBody(e)))
    /\ Leak

\* get_db_connection() gives a connection only when the server has a slot;
\* it gives None also when the environment lacks a variable or the connect
\* fails, which may happen at any time
CanConnect == open < MaxConn

\* inserts in flight: requests that will draw from a sequence
InFlight(op) ==
    Cardinality({ w \in DOMAIN pc : pc[w] = "execute" /\ req[w].op = op })

(***************************************************************************)
(* health_check                                                            *)
(***************************************************************************)
health_check(w) ==
    /\ pc[w] = "idle"
    /\ resp' = [resp EXCEPT ![w] =
           Response(200, [status |-> "ok",
                          message |-> "ReceptenApp API is running!",
                          timestamp |-> [iso |-> now]])]
    /\ UNCHANGED <<recipes, timers, recipes_id_seq, timers_id_seq, now, open,
                   leaked, pc, req, fetched, txn>>

(***************************************************************************)
(* The start of every handler that uses the database: it reads the request *)
(* and calls get_db_connection().                                          *)
(***************************************************************************)
ConnectionFailed(r) ==
    IF r.op = "db_test"
    THEN Response(500, [status |-> "Failed",
                        error |-> "Could not create connection"])
    ELSE Response(500, ErrorBody("Database connection failed"))

Begin(w, r, maxRecipeId, maxTimerId) ==
    /\ pc[w] = "idle"
    /\ r.op = "add_recipe" =>
           recipes_id_seq + InFlight("add_recipe") <= maxRecipeId
    /\ r.op = "add_timer" =>
           timers_id_seq + InFlight("add_timer") <= maxTimerId
    /\ \/ /\ CanConnect
          /\ open' = open + 1
          /\ pc' = [pc EXCEPT ![w] = "execute"]
          /\ req' = [req EXCEPT ![w] = r]
          /\ resp' = [resp EXCEPT ![w] = NoResp]
       \/ /\ open' = open
          /\ pc' = pc
          /\ req' = req
          /\ resp' = [resp EXCEPT ![w] = ConnectionFailed(r)]
    /\ UNCHANGED <<recipes, timers, recipes_id_seq, timers_id_seq, now,
                   leaked, fetched, txn>>

(***************************************************************************)
(* db_test                                                                 *)
(***************************************************************************)
db_test(w) ==
    /\ pc[w] = "execute"
    /\ req[w].op = "db_test"
    /\ \/ /\ Return(w, Response(200, [status |-> "Connected",
                                      version |-> "PostgreSQL"]))
          /\ Close
       \/ /\ Return(w, Response(500, [status |-> "Error",
                                      error |-> "OperationalError"]))
          /\ Leak
    /\ UNCHANGED <<recipes, timers, recipes_id_seq, timers_id_seq, now>>

(***************************************************************************)
(* get_recipes                                                             *)
(***************************************************************************)
get_recipes(w) ==
    /\ pc[w] = "execute"
    /\ req[w].op = "get_recipes"
    /\ \/ \E s \in SelectRecipes :
              /\ Return(w, Response(200, JsonArray(
                     [i \in 1..Len(s) |-> RecipeJson(s[i], recipes[s[i]])])))
              /\ Close
       \/ Except(w, "OperationalError")
    /\ UNCHANGED <<recipes, timers, recipes_id_seq, timers_id_seq, now>>

(***************************************************************************)
(* add_recipe                                                              *)
(***************************************************************************)
\* cur.execute(INSERT ... RETURNING id); recipe_id = cur.fetchone()[0]
add_recipe_execute(w) ==
    /\ pc[w] = "execute"
    /\ req[w].op = "add_recipe"
    /\ LET data == req[w].data IN
       \/ /\ \E k \in RequiredRecipeKeys : ~HasKey(data, k)
          /\ Except(w, "KeyError")
          /\ UNCHANGED <<recipes_id_seq, now>>
       \/ /\ \A k \in RequiredRecipeKeys : HasKey(data, k)
          /\ RecipesRejects(data["title"])
          /\ Except(w, "NotNullViolation")
          /\ recipes_id_seq' = recipes_id_seq + 1
          /\ now' = now
       \/ /\ \A k \in RequiredRecipeKeys : HasKey(data, k)
          /\ ~RecipesRejects(data["title"])
          /\ txn' = [txn EXCEPT ![w] =
                 [kind |-> "recipe", id |-> recipes_id_seq,
                  row |-> RecipeRow(data, now)]]
          /\ fetched' = [fetched EXCEPT ![w] = [id |-> recipes_id_seq]]
          /\ recipes_id_seq' = recipes_id_seq + 1
          /\ now' = now + 1
          /\ pc' = [pc EXCEPT ![w] = "commit"]
          /\ UNCHANGED <<open, leaked, resp, req>>
       \/ /\ \A k \in RequiredRecipeKeys : HasKey(data, k)
          /\ Except(w, "OperationalError")
          /\ UNCHANGED <<recipes_id_seq, now>>
    /\ UNCHANGED <<recipes, timers, timers_id_seq>>

\* conn.commit(); cur.close(); conn.close(); return ..., 201
add_recipe_commit(w) ==
    /\ pc[w] = "commit"
    /\ req[w].op = "add_recipe"
    /\ \/ /\ recipes' = Committed(recipes, txn[w])
          /\ Return(w, Response(201, [message |-> "Recept toegevoegd",
                                      recipe_id |-> fetched[w].id]))
          /\ Close
       \/ /\ recipes' = Aborted(recipes, txn[w])
          /\ Except(w, "OperationalError")
    /\ UNCHANGED <<timers, recipes_id_seq, timers_id_seq, now>>

(***************************************************************************)
(* get_recipe                                                              *)
(***************************************************************************)
\* SELECT * FROM recipes WHERE id = %s; recipe = cur.fetchone()
get_recipe_select(w) ==
    /\ pc[w] = "execute"
    /\ req[w].op = "get_recipe"
    /\ LET recipe_id == req[w].id IN
       \/ /\ recipe_id \notin DOMAIN recipes
          \* return ..., 404 comes before cur.close() and conn.close()
          /\ Return(w, Response(404, ErrorBody("Recept niet gevonden")))
          /\ Leak
       \/ /\ recipe_id \in DOMAIN recipes
          /\ fetched' = [fetched EXCEPT ![w] = [recipe |-> recipes[recipe_id]]]
          /\ pc' = [pc EXCEPT ![w] = "timers"]
          /\ UNCHANGED <<open, leaked, resp, txn, req>>
       \/ Except(w, "OperationalError")
    /\ UNCHANGED <<recipes, timers, recipes_id_seq, timers_id_seq, now>>

\* SELECT * FROM timers WHERE recipe_id = %s ORDER BY step_number;
\* cur.close(); conn.close(); return recipe_data
get_recipe_timers(w) ==
    /\ pc[w] = "timers"
    /\ req[w].op = "get_recipe"
    /\ \/ \E ts \in SelectTimers(req[w].id) :
              /\ Return(w, Response(200,
                     RecipeData(req[w].id, fetched[w].recipe, ts)))
              /\ Close
       \/ Except(w, "OperationalError")
    /\ UNCHANGED <<recipes, timers, recipes_id_seq, timers_id_seq, now>>

(***************************************************************************)
(* add_timer                                                               *)
(***************************************************************************)
\* cur.execute(INSERT ... RETURNING id); timer_id = cur.fetchone()[0]
add_timer_execute(w) ==
    /\ pc[w] = "execute"
    /\ req[w].op = "add_timer"
    /\ LET data == req[w].data IN
       \/ /\ \E k \in RequiredTimerKeys : ~HasKey(data, k)
          /\ Except(w, "KeyError")
          /\ UNCHANGED <<timers_id_seq, now>>
       \/ /\ \A k \in RequiredTimerKeys : HasKey(data, k)
          /\ TimersNotNullRejects(data["step_number"])
          /\ Except(w, "NotNullViolation")
          /\ timers_id_seq' = timers_id_seq + 1
          /\ now' = now
       \/ /\ \A k \in RequiredTimerKeys : HasKey(data, k)
          /\ ~TimersNotNullRejects(data["step_number"])
          /\ ForeignKeyRejects(data["recipe_id"])
          /\ Except(w, "ForeignKeyViolation")
          /\ timers_id_seq' = timers_id_seq + 1
          /\ now' = now
       \/ /\ \A k \in RequiredTimerKeys : HasKey(data, k)
          /\ ~TimersNotNullRejects(data["step_number"])
          /\ ~ForeignKeyRejects(data["recipe_id"])
          /\ txn' = [txn EXCEPT ![w] =
                 [kind |-> "timer", id |-> timers_id_seq,
                  row |-> TimerRow(data, now)]]
          /\ fetched' = [fetched EXCEPT ![w] = [id |-> timers_id_seq]]
          /\ timers_id_seq' = timers_id_seq + 1
          /\ now' = now + 1
          /\ pc' = [pc EXCEPT ![w] = "commit"]
          /\ UNCHANGED <<open, leaked, resp, req>>
       \/ /\ \A k \in RequiredTimerKeys : HasKey(data, k)
          /\ Except(w, "OperationalError")
          /\ UNCHANGED <<timers_id_seq, now>>
    /\ UNCHANGED <<recipes, timers, recipes_id_seq>>

\* conn.commit(); cur.close(); conn.close(); return ..., 201
add_timer_commit(w) ==
    /\ pc[w] = "commit"
    /\ req[w].op = "add_timer"
    /\ \/ /\ timers' = Committed(timers, txn[w])
          /\ Return(w, Response(201, [message |-> "Timer toegevoegd",
                                      timer_id |-> fetched[w].id]))
          /\ Close
       \/ /\ timers' = Aborted(timers, txn[w])
          /\ Except(w, "OperationalError")
    /\ UNCHANGED <<recipes, recipes_id_seq, timers_id_seq, now>>

(***************************************************************************)
(* toggle_timer                                                            *)
(***************************************************************************)
\* UPDATE timers SET active = NOT active WHERE id = %s RETURNING active;
\* result = cur.fetchone().  The UPDATE waits while another transaction
\* holds the row's lock, and then works on the row as committed.
toggle_timer_execute(w) ==
    /\ pc[w] = "execute"
    /\ req[w].op = "toggle_timer"
    /\ \/ /\ ToggleMatches(req[w].id) = {}
          /\ fetched' = [fetched EXCEPT ![w] = None]
          /\ txn' = txn
          /\ pc' = [pc EXCEPT ![w] = "commit"]
          /\ UNCHANGED <<open, leaked, resp, req>>
       \/ LET matched == ToggleMatches(req[w].id) IN
              /\ matched # {}
              /\ \A t \in matched : ~RowLocked(t)
              /\ txn' = [txn EXCEPT ![w] =
                     [kind |-> "update",
                      set |-> [t \in matched |-> SetActive(timers[t].active)]]]
              /\ \E t \in matched :
                     fetched' = [fetched EXCEPT ![w] =
                         [active |-> Returning(timers[t].active,
                                               SetActive(timers[t].active))]]
              /\ pc' = [pc EXCEPT ![w] = "commit"]
              /\ UNCHANGED <<open, leaked, resp, req>>
       \/ Except(w, "OperationalError")
    /\ UNCHANGED <<recipes, timers, recipes_id_seq, timers_id_seq, now>>

\* conn.commit(); cur.close(); conn.close(); return by result
toggle_timer_commit(w) ==
    /\ pc[w] = "commit"
    /\ req[w].op = "toggle_timer"
    /\ \/ /\ timers' = Committed(timers, txn[w])
          /\ Return(w, ToggleResponse(fetched[w]))
          /\ Close
       \/ /\ timers' = Aborted(timers, txn[w])
          /\ Except(w, "OperationalError")
    /\ UNCHANGED <<recipes, recipes_id_seq, timers_id_seq, now>>

(***************************************************************************)
(* The interpreter finalizes a connection object nothing refers to, which  *)
(* closes it (and rolls its transaction back); when, is up to the runtime. *)
(***************************************************************************)
Finalize ==
    /\ leaked > 0
    /\ leaked' = leaked - 1
    /\ open' = open - 1
    /\ UNCHANGED <<recipes, timers, recipes_id_seq, timers_id_seq, now, pc,
                   req, fetched, txn, resp>>

(***************************************************************************)
(* The service: any worker may take any request at any time.               *)
(***************************************************************************)
Workers == {"w1", "w2"}

InitWith(W) ==
    /\ recipes = <<>>
    /\ timers = <<>>
    /\ recipes_id_seq = 1
    /\ timers_id_seq = 1
    /\ now = 0
    /\ open = 0
    /\ leaked = 0
    /\ pc = [w \in W |-> "idle"]
    /\ req = [w \in W |-> NoReq]
    /\ fetched = [w \in W |-> None]
    /\ txn = [w \in W |-> NoTxn]
    /\ resp = [w \in W |-> NoResp]

Handle(w) ==
    \/ db_test(w)
    \/ get_recipes(w)
    \/ add_recipe_execute(w)
    \/ add_recipe_commit(w)
    \/ get_recipe_select(w)
    \/ get_recipe_timers(w)
    \/ add_timer_execute(w)
    \/ add_timer_commit(w)
    \/ toggle_timer_execute(w)
    \/ toggle_timer_commit(w)

Init == InitWith(Workers)

ServiceRequests ==
    Requests(RecipeBodies, TimerBodies, MaxRecipeId, MaxTimerId)

Next ==
    \/ \E w \in Workers : health_check(w)
    \/ \E w \in Workers : \E r \in ServiceRequests :
           Begin(w, r, MaxRecipeId, MaxTimerId)
    \/ \E w \in Workers : Handle(w)
    \/ Finalize

Spec == Init /\ [][Next]_vars

(***************************************************************************)
(* The service with one worker and payloads that cover the columns' value  *)
(* ranges: null and absent fields, empty text, numbers out of range.       *)
(***************************************************************************)
DataRecipeBodies ==
    { [title |-> StrV("Pasta"), cooking_time |-> IntV(20),
       servings |-> IntV(2)],
      [title |-> StrV("Soep"), ingredients |-> Null, servings |-> Null],
      [title |-> StrV(""), cooking_time |-> IntV(-1), servings |-> IntV(0)],
      [ingredients |-> StrV("x")],
      [title |-> Null] }

DataTimerBodies ==
    { [recipe_id |-> IntV(r), step_number |-> IntV(n),
       duration_minutes |-> IntV(5)] :
          r \in 1..(DataMaxRecipeId + 1), n \in 1..2 }
    \cup { [recipe_id |-> Null, step_number |-> IntV(1),
            duration_minutes |-> IntV(5)],
           [recipe_id |-> IntV(1), step_number |-> IntV(1),
            duration_minutes |-> IntV(-1)],
           [recipe_id |-> IntV(1), step_number |-> Null,
            duration_minutes |-> IntV(5)],
           [step_number |-> IntV(1), duration_minutes |-> IntV(5)],
           [recipe_id |-> IntV(1), duration_minutes |-> IntV(5)],
           [recipe_id |-> IntV(1), step_number |-> IntV(1)] }

InitData == InitWith({"w1"})

DataRequests ==
    Requests(DataRecipeBodies, DataTimerBodies,
             DataMaxRecipeId, DataMaxTimerId)

NextData ==
    \/ health_check("w1")
    \/ \E r \in DataRequests :
           Begin("w1", r, DataMaxRecipeId, DataMaxTimerId)
    \/ Handle("w1")
    \/ Finalize

SpecData == InitData /\ [][NextData]_vars

(***************************************************************************)
(* The service with one worker and timers of several steps and recipes:    *)
(* what get_recipe lists, and in which order.                              *)
(***************************************************************************)
StepTimerBodies ==
    { [recipe_id |-> IntV(r), step_number |-> IntV(n),
       duration_minutes |-> IntV(5)] : r \in 1..2, n \in 1..2 }
    \cup { [recipe_id |-> IntV(1), step_number |-> IntV(1)] }

StepRequests ==
    Requests(RecipeBodies, StepTimerBodies, DataMaxRecipeId, DataMaxTimerId)

NextSteps ==
    \/ health_check("w1")
    \/ \E r \in StepRequests :
           Begin("w1", r, DataMaxRecipeId, DataMaxTimerId)
    \/ Handle("w1")
    \/ Finalize

SpecSteps == InitData /\ [][NextSteps]_vars

(***************************************************************************)
(* The race: a database that holds one recipe and one timer, as add_recipe *)
(* and add_timer leave it, and NRace requests to toggle that timer, one    *)
(* per worker, all in flight together.                                     *)
(***************************************************************************)
Racers == 1..NRace

InitRace ==
    /\ recipes = 1 :> RecipeRow([title |-> StrV("Pasta")], 0)
    /\ timers = 1 :> TimerRow([recipe_id |-> IntV(1), step_number |-> IntV(1),
                               duration_minutes |-> IntV(5)], 1)
    /\ recipes_id_seq = 2
    /\ timers_id_seq = 2
    /\ now = 2
    /\ open = 0
    /\ leaked = 0
    /\ pc = [w \in Racers |-> "idle"]
    /\ req = [w \in Racers |-> NoReq]
    /\ fetched = [w \in Racers |-> None]
    /\ txn = [w \in Racers |-> NoTxn]
    /\ resp = [w \in Racers |-> NoResp]

NextRace ==
    \/ \E w \in Racers :
           /\ resp[w] = NoResp
           /\ Begin(w, [op |-> "toggle_timer", id |-> 1], 1, 1)
    \/ \E w \in Racers : toggle_timer_execute(w)
    \/ \E w \in Racers : toggle_timer_commit(w)
    \/ Finalize

SpecRace == InitRace /\ [][NextRace]_vars

(***************************************************************************)
(* Properties.                                                             *)
(***************************************************************************)
\* worker w takes a step of its handler
StepOf(w) == pc[w] # pc'[w]

\* worker w's handler returns in this step
Returns(w) == pc[w] # "idle" /\ pc'[w] = "idle"

TablesUnchanged == recipes' = recipes /\ timers' = timers

\* C1: a toggle_timer(t) that answers 200 has flipped the stored active flag
\* of t and answers the new, stored value; toggling that value again gives
\* the value before the call, so two successive toggles restore the flag.
C1_ToggleReturnsNew ==
    [][\A w \in DOMAIN pc :
          (/\ pc[w] = "commit"
           /\ req[w].op = "toggle_timer"
           /\ Returns(w)
           /\ resp'[w].status = 200)
          => LET t == req[w].id IN
             /\ t \in DOMAIN timers
             /\ timers'[t].active = ~timers[t].active
             /\ resp'[w].body = [active |-> timers'[t].active]
             /\ SetActive(timers'[t].active) = timers[t].active]_vars

\* a second toggle of a timer has run its UPDATE and fetched FALSE
C1_Witness ==
    \E w \in DOMAIN pc :
        /\ pc[w] = "commit"
        /\ req[w].op = "toggle_timer"
        /\ fetched[w] = [active |-> FALSE]

\* C2: every stored timer's recipe_id is the id of a stored recipe.
C2_TimersReferenceRecipes ==
    \A t \in DOMAIN timers :
        /\ timers[t].recipe_id # Null
        /\ timers[t].recipe_id.int \in DOMAIN recipes

\* a field of the request that carries a value, else the default
Supplied(data, key, default) ==
    IF key \in DOMAIN data /\ data[key] # Null THEN data[key] ELSE default

\* C3: an add_recipe that answers 201 with recipe_id r has stored, under r,
\* the request's values with the defaults ("", "", 0, 1) for every optional
\* field the request gives no value for; get_recipe answers the stored
\* fields, and an empty timers list while the recipe has no timer.
C3_CreateThenGet ==
    [][\A w \in DOMAIN pc :
          /\ (/\ pc[w] = "commit"
              /\ req[w].op = "add_recipe"
              /\ Returns(w)
              /\ resp'[w].status = 201)
             => LET r == resp'[w].body.recipe_id
                    d == req[w].data
                IN  /\ r \in DOMAIN recipes'
                    /\ recipes'[r].title = d.title
                    /\ recipes'[r].ingredients =
                           Supplied(d, "ingredients", StrV(""))
                    /\ recipes'[r].instructions =
                           Supplied(d, "instructions", StrV(""))
                    /\ recipes'[r].cooking_time =
                           Supplied(d, "cooking_time", IntV(0))
                    /\ recipes'[r].servings = Supplied(d, "servings", IntV(1))
          /\ (/\ pc[w] = "timers"
              /\ Returns(w)
              /\ resp'[w].status = 200)
             => LET r == req[w].id
                    b == resp'[w].body
                IN  /\ b.title = recipes[r].title
                    /\ b.ingredients = recipes[r].ingredients
                    /\ b.instructions = recipes[r].instructions
                    /\ b.cooking_time = recipes[r].cooking_time
                    /\ b.servings = recipes[r].servings
                    /\ (\A t \in DOMAIN timers : timers[t].recipe_id # IntV(r))
                           => b.timers = JsonArray(<<>>)]_vars

\* C4: when no request is being handled, no connection is open.
C4_ConnectionsReleased ==
    (\A w \in DOMAIN pc : pc[w] = "idle") => open = 0

\* the racers whose toggle answered 200
Toggled == { w \in DOMAIN resp : resp[w].status = 200 }

\* C5: of the concurrent toggles of one timer that was inactive, each one
\* that answered 200 has flipped it: the flag is set exactly when an odd
\* number answered, and the answers alternate, so the TRUE answers are as
\* many as the FALSE ones or one more.
C5_NoLostToggle ==
    LET k == Cardinality(Toggled)
        yes == Cardinality({ w \in Toggled : resp[w].body.active })
    IN  /\ timers[1].active = (k % 2 = 1)
        /\ yes = (k + 1) \div 2

\* every racer has toggled the timer and has its answer
C5_Witness ==
    /\ \A w \in DOMAIN pc : pc[w] = "idle"
    /\ Toggled = DOMAIN resp
    /\ Cardinality(Toggled) >= 2

\* C6: get_recipe of an id no stored recipe has answers 404 with nothing but
\* an error in the body; toggle_timer of an id no stored timer has finds no
\* row and answers 404; neither changes a stored row.  (A 500 is the answer
\* when a statement fails.)
C6_NotFound ==
    [][\A w \in DOMAIN pc :
          /\ (/\ pc[w] = "execute"
              /\ req[w].op = "get_recipe"
              /\ req[w].id \notin DOMAIN recipes
              /\ StepOf(w))
             => /\ Returns(w)
                /\ TablesUnchanged
                /\ resp'[w].status # 500 =>
                       /\ resp'[w].status = 404
                       /\ DOMAIN resp'[w].body = {"error"}
          /\ (/\ pc[w] = "execute"
              /\ req[w].op = "toggle_timer"
              /\ req[w].id \notin DOMAIN timers
              /\ StepOf(w))
             => /\ TablesUnchanged
                /\ ~Returns(w) => fetched'[w] = None
          /\ (/\ pc[w] = "commit"
              /\ req[w].op = "toggle_timer"
              /\ fetched[w] = None
              /\ StepOf(w))
             => /\ Returns(w)
                /\ TablesUnchanged
                /\ resp'[w].status # 500 =>
                       /\ resp'[w].status = 404
                       /\ DOMAIN resp'[w].body = {"error"}]_vars

\* one worker was told its recipe, another its timer, does not exist
C6_Witness ==
    \E w, v \in DOMAIN resp :
        /\ resp[w] = Response(404, [error |-> "Recept niet gevonden"])
        /\ resp[v] = Response(404, [error |-> "Timer niet gevonden"])

ImmutableTimerFields ==
    {"recipe_id", "step_number", "step_description", "duration_minutes",
     "created_at"}

\* C7: a step that changes the tables removes no stored row and changes no
\* stored recipe; of a stored timer it changes only active, and only when
\* toggle_timer of that timer's id commits; and it is the commit of
\* add_recipe, add_timer or toggle_timer, never a step of health_check,
\* db_test, get_recipes or get_recipe.
C7_Frame ==
    [][\/ TablesUnchanged
       \/ /\ \A r \in DOMAIN recipes :
                 r \in DOMAIN recipes' /\ recipes'[r] = recipes[r]
          /\ \A t \in DOMAIN timers :
                 /\ t \in DOMAIN timers'
                 /\ \A f \in ImmutableTimerFields :
                        timers'[t][f] = timers[t][f]
                 /\ timers'[t].active # timers[t].active =>
                        \E w \in DOMAIN pc :
                            /\ pc[w] = "commit"
                            /\ req[w] = [op |-> "toggle_timer", id |-> t]
                            /\ Returns(w)
          /\ \E w \in DOMAIN pc :
                 /\ pc[w] = "commit"
                 /\ req[w].op \in {"add_recipe", "add_timer", "toggle_timer"}
                 /\ Returns(w)]_vars

\* a toggle has run its UPDATE while two timers are stored
C7_Witness ==
    /\ Cardinality(DOMAIN timers) >= 2
    /\ \E w \in DOMAIN pc : pc[w] = "commit" /\ txn[w].kind = "update"

\* C8: stored rows change only in the step in which a handler commits and
\* answers 200 or 201; add_recipe without title and add_timer without any
\* of its three required keys answer 500, and so does every add_recipe,
\* add_timer or toggle_timer whose statement the store rejects.
C8_ErrorsLeaveNoRow ==
    [][/\ ~TablesUnchanged =>
              \E w \in DOMAIN pc :
                  /\ pc[w] = "commit"
                  /\ Returns(w)
                  /\ resp'[w].status \in {200, 201}
       /\ \A w \in DOMAIN pc :
              /\ (/\ pc[w] = "execute"
                  /\ StepOf(w)
                  /\ \/ /\ req[w].op = "add_recipe"
                        /\ "title" \notin DOMAIN req[w].data
                     \/ /\ req[w].op = "add_timer"
                        /\ \E k \in {"recipe_id", "step_number",
                                     "duration_minutes"} :
                               k \notin DOMAIN req[w].data)
                 => Returns(w) /\ resp'[w].status = 500
              /\ (/\ pc[w] = "execute"
                  /\ Returns(w)
                  /\ req[w].op \in {"add_recipe", "add_timer", "toggle_timer"})
                 => resp'[w].status = 500
              /\ (/\ pc[w] = "idle"
                  /\ pc'[w] = "idle"
                  /\ resp'[w] # resp[w])
                 => resp'[w].status \in {200, 500}]_vars

\* one request failed for a missing key, another when the store refused it
C8_Witness ==
    \E w, v \in DOMAIN resp :
        /\ resp[w] = Response(500, [error |-> "KeyError"])
        /\ resp[v] = Response(500, [error |-> "ForeignKeyViolation"])

\* C9: an add_timer that answers 201 with timer_id t has stored, under the
\* new id t, the request's recipe_id, step_number and duration_minutes and
\* active = FALSE; a get_recipe(r) that answers 200 lists exactly the stored
\* timers whose recipe_id is r, each once and with its stored step_number,
\* duration_minutes and active, in ascending order of step_number.
C9_TimersListed ==
    [][\A w \in DOMAIN pc :
          /\ (/\ pc[w] = "commit"
              /\ req[w].op = "add_timer"
              /\ Returns(w)
              /\ resp'[w].status = 201)
             => LET t == resp'[w].body.timer_id
                    d == req[w].data
                IN  /\ t \notin DOMAIN timers
                    /\ t \in DOMAIN timers'
                    /\ timers'[t].recipe_id = d.recipe_id
                    /\ timers'[t].step_number = d.step_number
                    /\ timers'[t].duration_minutes = d.duration_minutes
                    /\ timers'[t].active = FALSE
          /\ (/\ pc[w] = "timers"
              /\ Returns(w)
              /\ resp'[w].status = 200)
             => LET r == req[w].id
                    ts == resp'[w].body.timers.array
                    own == { t \in DOMAIN timers :
                                 timers[t].recipe_id = IntV(r) }
                IN  /\ { ts[i].id : i \in DOMAIN ts } = own
                    /\ Cardinality(DOMAIN ts) = Cardinality(own)
                    /\ \A i \in DOMAIN ts :
                           /\ ts[i].step_number = timers[ts[i].id].step_number
                           /\ ts[i].duration_minutes =
                                  timers[ts[i].id].duration_minutes
                           /\ ts[i].active = timers[ts[i].id].active
                    /\ \A i, j \in DOMAIN ts :
                           i < j => ts[i].step_number.int
                                        <= ts[j].step_number.int]_vars

\* get_recipe listed two timers, the one added later first
C9_Witness ==
    \E w \in DOMAIN resp :
        /\ resp[w].status = 200
        /\ "timers" \in DOMAIN resp[w].body
        /\ LET ts == resp[w].body.timers.array IN
           /\ Cardinality(DOMAIN ts) = 2
           /\ ts[1].id > ts[2].id

\* C10: every stored recipe has a non-empty title, a cooking_time >= 0 and
\* a servings >= 1; every stored timer has a duration_minutes >= 0.
C10_DomainConstraints ==
    /\ \A r \in DOMAIN recipes :
           /\ recipes[r].title # StrV("")
           /\ recipes[r].cooking_time # Null
           /\ recipes[r].cooking_time.int >= 0
           /\ recipes[r].servings # Null
           /\ recipes[r].servings.int >= 1
    /\ \A t \in DOMAIN timers :
           /\ timers[t].duration_minutes # Null
           /\ timers[t].duration_minutes.int >= 0

=============================================================================
